---- MODULE Spec2Model ----
(***************************************************************************)
(* Model of the image API of WeatherImagesApi/main.py: the in-memory       *)
(* metadata map, the images_metadata.json document, the two image          *)
(* directories, and the startup, list, get, upload and delete operations.  *)
(*                                                                         *)
(* Strings the code inspects (filenames, urls) are sequences of text       *)
(* tokens, one token per character; a uuid string, a directory name and    *)
(* the ".." path element are one token each.                               *)
(***************************************************************************)
EXTENDS Integers, Sequences, FiniteSets, TLC

VARIABLES
    running,    \* the process is up (module-level code of main.py has run)
    metadata,   \* main.py:70   the in-memory map  id -> record
    doc,        \* main.py:21   images_metadata.json on disk
    uploadDir,  \* main.py:19   uploaded_images/ : file name -> content
    projDir,    \* main.py:20   images/          : file name -> content
    nextId,     \* number of uuid4() values drawn so far, plus one
    last,       \* the last request handled and the response it got
    deleted,    \* history: the ids of uploaded records a delete request was let act on
    inflight,   \* main.py:169 the uploads suspended at "await file.read()", by slot
    atExit,     \* history: how the process last exited, until it answers a request again
    allSucceeded \* history: every upload and delete answered since the start got 200

vars == <<running, metadata, doc, uploadDir, projDir, nextId, last, deleted,
          inflight, atExit, allSucceeded>>

----------------------------------------------------------------------------
(* Bounds *)

\* uuid4() values available to a run
MaxIds == 2

\* uploads a run of the process suspends at their await, one slot each
MaxInflight == 2

----------------------------------------------------------------------------
(* Program constants *)

UPLOAD_DIR == "uploaded_images"
PROJECT_IMAGES_DIR == "images"
API_KEY == "thisisapikey"

HTTP_200_OK == 200
HTTP_400_BAD_REQUEST == 400
HTTP_403_FORBIDDEN == 403
HTTP_404_NOT_FOUND == 404
HTTP_500_INTERNAL == 500

\* the tuple of accepted extensions, main.py:74 and main.py:179
IMAGE_EXTENSIONS ==
    { <<".", "p", "n", "g">>, <<".", "j", "p", "g">>, <<".", "j", "p", "e", "g">>,
      <<".", "g", "i", "f">>, <<".", "b", "m", "p">> }

----------------------------------------------------------------------------
(* Strings *)

UpperToLower ==
    ("A" :> "a") @@ ("B" :> "b") @@ ("G" :> "g") @@ ("J" :> "j") @@
    ("N" :> "n") @@ ("P" :> "p") @@ ("T" :> "t") @@ ("X" :> "x")

\* str.lower()
Lower(s) ==
    [i \in 1..Len(s) |-> IF s[i] \in DOMAIN UpperToLower THEN UpperToLower[s[i]] ELSE s[i]]

\* str.endswith(suffix)
EndsWith(s, suffix) ==
    /\ Len(s) >= Len(suffix)
    /\ SubSeq(s, Len(s) - Len(suffix) + 1, Len(s)) = suffix

\* positions of the "." tokens of s
DotPositions(s) == { i \in 1..Len(s) : s[i] = "." }

\* The largest element of a non-empty set of integers
MaxOf(S) == CHOOSE m \in S : \A x \in S : x <= m

\* Mutant of HasImageExtension: any extension at all is accepted
HasImageExtension_AnyDot(filename) == DotPositions(filename) # {}

\* filename.lower().endswith(('.png', '.jpg', '.jpeg', '.gif', '.bmp'))
HasImageExtension(filename) ==
    \E ext \in IMAGE_EXTENSIONS : EndsWith(Lower(filename), ext)

\* s.split(".")[-1]
LastDotPart(s) ==
    IF DotPositions(s) = {} THEN s
    ELSE SubSeq(s, MaxOf(DotPositions(s)) + 1, Len(s))

\* str(uuid.uuid4()): the n-th value drawn, one lowercase token; no two draws agree
UUIDS == <<"u1", "u2", "u3", "u4", "u5", "u6", "u7", "u8">>

\* Mutant of SynthesizedName: the client's file name is kept as it is
SynthesizedName_ClientName(image_id, client_name) == client_name

\* f"{image_id}.{file_ext}" with file_ext = file.filename.split(".")[-1]
SynthesizedName(image_id, client_name) ==
    <<image_id>> \o <<".">> \o LastDotPart(client_name)

\* f"/images/{filename}" and f"/uploaded/{filename}"
ProjectUrl(filename) == <<"/images/">> \o filename
UploadedUrl(filename) == <<"/uploaded/">> \o filename

----------------------------------------------------------------------------
(* The file system *)

\* os.path.join(directory, filename), resolved to the directory and the name the
\* path denotes: a filename "../<dir>/<name>" leaves the directory it is joined to
JoinPath(directory, filename) ==
    IF /\ Len(filename) > 4
       /\ SubSeq(filename, 1, 2) = <<"..", "/">>
       /\ filename[3] \in {UPLOAD_DIR, PROJECT_IMAGES_DIR}
       /\ filename[4] = "/"
    THEN [dir |-> filename[3], name |-> SubSeq(filename, 5, Len(filename))]
    ELSE [dir |-> directory, name |-> filename]

\* the two directories as one file system
FileSystem == (UPLOAD_DIR :> uploadDir) @@ (PROJECT_IMAGES_DIR :> projDir)

\* os.path.exists(path)
PathExists(fs, path) == path.name \in DOMAIN fs[path.dir]

\* the file system after a write of content to path (created or overwritten)
WriteFile(fs, path, content) ==
    [fs EXCEPT ![path.dir] = (path.name :> content) @@ fs[path.dir]]

\* os.remove(path)
RemoveFile(fs, path) ==
    [fs EXCEPT ![path.dir] = [n \in (DOMAIN fs[path.dir]) \ {path.name} |-> fs[path.dir][n]]]

\* Mutant of RemoveIfExists: the file is left where it is
RemoveIfExists_Kept(fs, path) == fs

\* if os.path.exists(path): os.remove(path)
RemoveIfExists(fs, path) ==
    IF PathExists(fs, path) THEN RemoveFile(fs, path) ELSE fs

\* os.path.splitext(filename)[1].lower() is an extension PIL can save
PilKnowsExtension(name) ==
    /\ DotPositions(name) # {}
    /\ MaxOf(DotPositions(name)) > 1
    /\ Lower(SubSeq(name, MaxOf(DotPositions(name)), Len(name))) \in IMAGE_EXTENSIONS

----------------------------------------------------------------------------
(* The metadata store *)

EmptyMap == [k \in {} |-> k]

\* json.dump(metadata, f): the members of the JSON object written
json_dump(m) == { <<k, m[k]>> : k \in DOMAIN m }

\* json.load(f) of a document json.dump wrote
json_load(text) ==
    [k \in { kv[1] : kv \in text } |-> (CHOOSE kv \in text : kv[1] = k)[2]]

AbsentDoc == [state |-> "absent", text |-> {}]
CorruptDoc == [state |-> "corrupt", text |-> {}]
JsonDoc(m) == [state |-> "json", text |-> json_dump(m)]

\* save_metadata(metadata) for each way the write can end: done, open() raised
\* (the document is untouched), or the write raised after open() truncated it
FlushOutcomes == {"ok", "open_fails", "write_fails"}
save_metadata(m, flush) ==
    CASE flush = "ok" -> JsonDoc(m)
      [] flush = "open_fails" -> doc
      [] OTHER -> CorruptDoc

----------------------------------------------------------------------------
(* Inputs *)

\* X-API-Key header values: "" is a missing (or empty) header
Keys == {"", "wrongkey", API_KEY}

\* "a.PNG"
A_PNG == <<"a", ".", "P", "N", "G">>
\* "c.txt"
C_TXT == <<"c", ".", "t", "x", "t">>
\* "../images/a.png"
UP_A_PNG == <<"..", "/", PROJECT_IMAGES_DIR, "/">> \o A_PNG

\* the filename form field; <<>> is a field that is missing or empty
NoFilename == <<>>
SuppliedFilenames == {NoFilename, A_PNG, C_TXT, UP_A_PNG}

\* the filename fields of uploads that are suspended at their await
ConcurrentFilenames == {A_PNG, UP_A_PNG}

\* file.filename, the name the client gave the uploaded part
DefaultClientFilename == <<"x", ".", "p", "n", "g">>
ClientFilenames == { DefaultClientFilename, <<"x">> }

\* names of files the project directory may hold when the process first starts
ProjectFilenames == {A_PNG, C_TXT}

\* ids a get or delete request may name
RequestIds == { UUIDS[i] : i \in 1..MaxIds }

\* A file's content: the upload that wrote it ("" for a file deployed with the
\* project) and whether PIL can open it as an image
FileContent(by, image) == [by |-> by, image |-> image]

\* The fault, if any, that an upload meets after its filename checks:
\*   save_before_open, save_after_open   resized_image.save(path) raises, before the
\*                       file is opened or after (a truncated file is left)
\*   inspect             get_image_info(path) returns None
\*   flush_open, flush_write   save_metadata raises (see save_metadata)
\* A fault ends the handler, so no request meets two.
UploadFaults ==
    {"none", "save_before_open", "save_after_open", "inspect", "flush_open", "flush_write"}

\* how resized_image.save(path) ends under a fault
SaveResult(fault) ==
    CASE fault = "save_before_open" -> "fails_before_open"
      [] fault = "save_after_open" -> "fails_after_open"
      [] OTHER -> "ok"

\* how save_metadata ends under a fault
FlushResult(fault) ==
    CASE fault = "flush_open" -> "open_fails"
      [] fault = "flush_write" -> "write_fails"
      [] OTHER -> "ok"

----------------------------------------------------------------------------
(* Records and helpers of the handlers *)

ProjectRecord(image_id, filename) ==
    [id |-> image_id, filename |-> filename, url |-> ProjectUrl(filename),
     source |-> "project"]

UploadedRecord(image_id, filename) ==
    [id |-> image_id, filename |-> filename, url |-> UploadedUrl(filename),
     source |-> "uploaded"]

\* get_image_info(filepath) returns a value (TRUE) or None (FALSE)
get_image_info(fs, path, fault) ==
    /\ PathExists(fs, path)
    /\ fs[path.dir][path.name].image
    /\ ~fault

\* Mutant of get_api_key: any key that is present is accepted
get_api_key_AnyKey(key) == IF key = "" THEN HTTP_403_FORBIDDEN ELSE 0

\* get_api_key: the status it raises, 0 when the key is accepted
get_api_key(key) ==
    IF key = "" THEN HTTP_403_FORBIDDEN
    ELSE IF key # API_KEY THEN HTTP_403_FORBIDDEN
    ELSE 0

\* Mutant of Del: the map is cleared
Del_All(m, image_id) == EmptyMap

\* Mutant of FilenameExists: the filename is looked up among the ids
FilenameExists_AmongIds(m, filename) == \E k \in DOMAIN m : <<k>> = filename

\* any(img["filename"] == filename for img in metadata.values())
FilenameExists(m, filename) == \E k \in DOMAIN m : m[k].filename = filename

\* the directory get_image reads a record's file from
RecordDir(rec) == IF rec.source = "uploaded" THEN UPLOAD_DIR ELSE PROJECT_IMAGES_DIR

\* metadata[image_id] = rec
Put(m, image_id, rec) == (image_id :> rec) @@ m

\* del metadata[image_id]
Del(m, image_id) == [k \in (DOMAIN m) \ {image_id} |-> m[k]]

Request(op, key, image_id, filename, decodable) ==
    [op |-> op, key |-> key, image_id |-> image_id, filename |-> filename,
     decodable |-> decodable]

Responded(req, status, body) ==
    [op |-> req.op, key |-> req.key, image_id |-> req.image_id,
     filename |-> req.filename, decodable |-> req.decodable,
     status |-> status, body |-> body, fault |-> "none", absent |-> FALSE]

NoRequest == Responded(Request("none", "", "", NoFilename, FALSE), 0, {})

\* No exit to remember; otherwise map is the in-memory map the process held when
\* it exited and clean tells that every upload and delete of that run got 200
NoExit == [map |-> EmptyMap, clean |-> FALSE]

\* The places an upload can wait in at its await
Slots == 1..MaxInflight

\* A slot no upload has used: phase is "idle", then "reading" while the upload is
\* suspended, then "done" with the status it was answered and the id it stored;
\* peers are the slots whose uploads were suspended at the same time as this one
IdleSlot == [phase |-> "idle", filename |-> NoFilename, status |-> 0, id |-> "", peers |-> {}]

----------------------------------------------------------------------------
(* Process start and stop *)

\* Mutant of load_metadata: the document is not read
load_metadata_Empty == EmptyMap

\* load_metadata(); the document is readable (absent, or JSON)
load_metadata ==
    IF doc.state = "json" THEN json_load(doc.text) ELSE EmptyMap

\* Mutant of NeedsInitialization: the project directory is scanned at every start
NeedsInitialization_Always(m) == TRUE

\* "if not metadata": the loaded map is empty
NeedsInitialization(m) == DOMAIN m = {}

\* the files of os.listdir(PROJECT_IMAGES_DIR) that the scan considers
ScanCandidates == { f \in DOMAIN projDir : HasImageExtension(f) }

\* the records the scan registers when uuid4() gives file f the id ids[f]
ScannedRecords(ids) ==
    LET registered == { f \in ScanCandidates :
                          get_image_info(FileSystem, JoinPath(PROJECT_IMAGES_DIR, f), FALSE) }
    IN  [k \in { ids[f] : f \in registered } |->
            ProjectRecord(k, CHOOSE f \in registered : ids[f] = k)]

\* the ways the scan can give its files the next uuid4() values, one each
IdAssignments ==
    LET fresh == { UUIDS[i] : i \in nextId..(nextId + Cardinality(ScanCandidates) - 1) }
    IN  { ids \in [ScanCandidates -> fresh] :
            \A f, g \in ScanCandidates : f # g => ids[f] # ids[g] }

\* Module-level code run at process start (main.py:69-86). json.load of a
\* corrupt document raises and so does a failed save: the process does not come up.
Startup ==
    /\ ~running
    /\ UNCHANGED inflight
    /\ LET req == Request("startup", "", "", NoFilename, FALSE)
       IN
       IF doc.state = "corrupt"
       THEN /\ last' = Responded(req, 1, {})
            /\ UNCHANGED <<running, metadata, doc, uploadDir, projDir, nextId, deleted,
                           atExit, allSucceeded>>
       ELSE IF ~NeedsInitialization(load_metadata)
       THEN /\ running' = TRUE
            /\ metadata' = load_metadata
            /\ last' = Responded(req, 0, {})
            /\ allSucceeded' = TRUE
            /\ UNCHANGED <<doc, uploadDir, projDir, nextId, deleted, atExit>>
       ELSE /\ nextId + Cardinality(ScanCandidates) - 1 <= MaxIds
            /\ \E ids \in IdAssignments, flush \in FlushOutcomes :
                 /\ nextId' = nextId + Cardinality(ScanCandidates)
                 /\ doc' = save_metadata(ScannedRecords(ids), flush)
                 /\ running' = (flush = "ok")
                 /\ metadata' = IF flush = "ok" THEN ScannedRecords(ids) ELSE EmptyMap
                 /\ last' = Responded(req, IF flush = "ok" THEN 0 ELSE 1, {})
                 /\ allSucceeded' = IF flush = "ok" THEN TRUE ELSE allSucceeded
                 /\ UNCHANGED <<uploadDir, projDir, deleted, atExit>>

\* The process exits; the in-memory map is gone, the files stay.
Shutdown ==
    /\ running
    /\ running' = FALSE
    /\ metadata' = EmptyMap
    /\ last' = NoRequest
    /\ atExit' = [map |-> metadata, clean |-> allSucceeded]
    /\ inflight' = [s \in Slots |-> IdleSlot]
    /\ UNCHANGED <<doc, uploadDir, projDir, nextId, deleted, allSucceeded>>

----------------------------------------------------------------------------
(* The handlers *)

Outcome(status, fs, m, d, drew, body) ==
    [status |-> status, fs |-> fs, metadata |-> m, doc |-> d, drew |-> drew, body |-> body,
     met |-> "none"]

\* The outcome of a handler that met the fault (an exception raised by the image
\* save or by save_metadata, or None returned by get_image_info)
Faulted(fault, out) == [out EXCEPT !.met = fault]

\* Mutant of IsProjectImage: no record is protected
IsProjectImage_Never(image_data) == FALSE

\* image_data["source"] == "project"
IsProjectImage(image_data) == image_data.source = "project"

\* the body of upload_image, lines 168-228, for a request that passed get_api_key
upload_image(req, client_name, fault) ==
    LET save_result == SaveResult(fault)
        inspect_fault == (fault = "inspect")
        flush == FlushResult(fault)
        image_id == UUIDS[nextId]
        filename == req.filename
        unique_filename ==
            IF filename # NoFilename THEN filename
            ELSE SynthesizedName(image_id, client_name)
        path == JoinPath(UPLOAD_DIR, unique_filename)
        fs0 == FileSystem
        saved == IF PilKnowsExtension(path.name) THEN save_result ELSE "fails_before_open"
        fs1 == CASE saved = "ok" -> WriteFile(fs0, path, FileContent(image_id, TRUE))
                 [] saved = "fails_after_open" ->
                        WriteFile(fs0, path, FileContent(image_id, FALSE))
                 [] OTHER -> fs0
        m1 == Put(metadata, image_id, UploadedRecord(image_id, unique_filename))
    IN
    IF ~req.decodable
    THEN \* Image.open raises; 'path' is not yet a local
         Outcome(HTTP_500_INTERNAL, fs0, metadata, doc, FALSE, {})
    ELSE IF filename # NoFilename /\ ~HasImageExtension(filename)
    THEN Outcome(HTTP_400_BAD_REQUEST, fs0, metadata, doc, TRUE, {})
    ELSE IF filename # NoFilename /\ FilenameExists(metadata, filename)
    THEN Outcome(HTTP_400_BAD_REQUEST, fs0, metadata, doc, TRUE, {})
    ELSE IF saved # "ok"
    THEN \* resized_image.save raised: the except block removes path if it exists
         Faulted(IF PilKnowsExtension(path.name) THEN fault ELSE "save_before_open",
                 Outcome(HTTP_500_INTERNAL, RemoveIfExists(fs1, path), metadata, doc,
                         TRUE, {}))
    ELSE IF ~get_image_info(fs1, path, inspect_fault)
    THEN Faulted("inspect",
                 Outcome(HTTP_500_INTERNAL, RemoveIfExists(fs1, path), metadata, doc,
                         TRUE, {}))
    ELSE IF flush # "ok"
    THEN \* save_metadata raised after metadata[image_id] was set
         Faulted(fault,
                 Outcome(HTTP_500_INTERNAL, RemoveIfExists(fs1, path), m1,
                         save_metadata(m1, flush), TRUE, {}))
    ELSE Outcome(HTTP_200_OK, fs1, m1, save_metadata(m1, flush), TRUE, {m1[image_id]})

\* the body of delete_image, lines 126-160, for a request that passed get_api_key
delete_image(req, flush) ==
    LET image_id == req.image_id
        fs0 == FileSystem
    IN
    IF image_id \notin DOMAIN metadata
    THEN Outcome(HTTP_404_NOT_FOUND, fs0, metadata, doc, FALSE, {})
    ELSE LET image_data == metadata[image_id]
             filepath == JoinPath(UPLOAD_DIR, image_data.filename)
             fs1 == RemoveIfExists(fs0, filepath)
             m1 == Del(metadata, image_id)
         IN
         IF IsProjectImage(image_data)
         THEN Outcome(HTTP_403_FORBIDDEN, fs0, metadata, doc, FALSE, {})
         ELSE IF flush # "ok"
         THEN Faulted(IF flush = "open_fails" THEN "flush_open" ELSE "flush_write",
                      Outcome(HTTP_500_INTERNAL, fs1, m1, save_metadata(m1, flush),
                              FALSE, {}))
         ELSE Outcome(HTTP_200_OK, fs1, m1, save_metadata(m1, flush), FALSE,
                      {[id |-> image_id, filename |-> image_data.filename]})

\* get_image, lines 97-119
get_image(req) ==
    LET image_id == req.image_id
        fs0 == FileSystem
    IN
    IF image_id \notin DOMAIN metadata
    THEN Outcome(HTTP_404_NOT_FOUND, fs0, metadata, doc, FALSE, {})
    ELSE LET image_data == metadata[image_id]
             filepath == JoinPath(RecordDir(image_data), image_data.filename)
         IN
         IF ~PathExists(fs0, filepath)
         THEN Outcome(HTTP_404_NOT_FOUND, fs0, metadata, doc, FALSE, {})
         ELSE Outcome(HTTP_200_OK, fs0, metadata, doc, FALSE,
                      {fs0[filepath.dir][filepath.name]})

\* list_images, lines 90-93
list_images == 
    Outcome(HTTP_200_OK, FileSystem, metadata, doc, FALSE,
            { metadata[k] : k \in DOMAIN metadata })

\* The state after a handler answered req with outcome out
Apply(req, out) ==
    /\ metadata' = out.metadata
    /\ doc' = out.doc
    /\ uploadDir' = out.fs[UPLOAD_DIR]
    /\ projDir' = out.fs[PROJECT_IMAGES_DIR]
    /\ nextId' = IF out.drew THEN nextId + 1 ELSE nextId
    /\ last' = [Responded(req, out.status, out.body) EXCEPT
                    !.fault = out.met,
                    \* history: the delete found no file at the record's path
                    !.absent = /\ req.op = "delete"
                               /\ req.image_id \in DOMAIN metadata
                               /\ metadata[req.image_id].source = "uploaded"
                               /\ ~PathExists(FileSystem,
                                     JoinPath(UPLOAD_DIR, metadata[req.image_id].filename))]
    /\ deleted' = IF /\ req.op = "delete"
                     /\ req.image_id \in DOMAIN metadata
                     /\ metadata[req.image_id].source = "uploaded"
                  THEN deleted \cup {req.image_id}
                  ELSE deleted
    /\ allSucceeded' = IF req.op \in {"upload", "delete"}
                       THEN allSucceeded /\ out.status = HTTP_200_OK
                       ELSE allSucceeded
    /\ atExit' = NoExit
    /\ UNCHANGED running

\* The request is turned away by the get_api_key dependency, before its form
\* fields are read: the route, the path parameter and the key are what was seen
Refuse(req, status) ==
    /\ last' = Responded(Request(req.op, req.key, req.image_id, NoFilename, FALSE),
                         status, {})
    /\ allSucceeded' = FALSE
    /\ atExit' = NoExit
    /\ UNCHANGED <<running, metadata, doc, uploadDir, projDir, nextId, deleted>>

\* POST /api/images
Upload ==
    /\ running
    /\ UNCHANGED inflight
    /\ \E key \in Keys, filename \in SuppliedFilenames, decodable \in BOOLEAN :
         LET req == Request("upload", key, "", filename, decodable)
         IN  IF get_api_key(key) # 0
             THEN Refuse(req, get_api_key(key))
             ELSE /\ decodable => nextId <= MaxIds
                  /\ \E client_name \in ClientFilenames, fault \in UploadFaults :
                       \* inputs the handler does not get to read are not varied
                       /\ (~decodable \/ filename # NoFilename) =>
                              client_name = DefaultClientFilename
                       /\ ~decodable => fault = "none"
                       /\ Apply(req, upload_image(req, client_name, fault))

\* POST /api/images up to its only suspension point: the key was accepted, the
\* form was parsed, and the handler waits in slot s at "await file.read()"
\* (main.py:169). Uploads already waiting are concurrent with this one. Slots
\* are taken in order, once each per run of the process, and only while a uuid4()
\* value is left for every suspended upload.
UploadBegin(s) ==
    /\ running
    /\ inflight[s].phase = "idle"
    /\ \A t \in 1..(s - 1) : inflight[t].phase # "idle"
    /\ nextId + Cardinality({ t \in Slots : inflight[t].phase = "reading" }) <= MaxIds
    /\ \E filename \in ConcurrentFilenames :
         inflight' =
            [t \in Slots |->
               IF t = s
               THEN [phase |-> "reading", filename |-> filename, status |-> 0, id |-> "",
                     peers |-> { u \in Slots \ {s} : inflight[u].phase = "reading" }]
               ELSE IF inflight[t].phase = "reading"
               THEN [inflight[t] EXCEPT !.peers = @ \cup {s}]
               ELSE inflight[t]]
    /\ UNCHANGED <<running, metadata, doc, uploadDir, projDir, nextId, last, deleted,
                   atExit, allSucceeded>>

\* POST /api/images from its suspension point to its response (main.py:170-228):
\* file.read() yields the contents, and the rest of the handler runs in one piece
UploadResume(s) ==
    /\ running
    /\ inflight[s].phase = "reading"
    /\ \E decodable \in BOOLEAN, client_name \in ClientFilenames, fault \in UploadFaults :
         LET req == Request("upload", API_KEY, "", inflight[s].filename, decodable)
             out == upload_image(req, client_name, fault)
         IN  /\ decodable => nextId <= MaxIds
             /\ (~decodable \/ req.filename # NoFilename) =>
                    client_name = DefaultClientFilename
             /\ ~decodable => fault = "none"
             /\ Apply(req, out)
             /\ inflight' = [inflight EXCEPT
                    ![s].phase = "done",
                    ![s].status = out.status,
                    ![s].id = IF out.status = HTTP_200_OK THEN UUIDS[nextId] ELSE ""]

\* DELETE /api/images/{image_id}
Delete ==
    /\ running
    /\ UNCHANGED inflight
    /\ \E key \in Keys, image_id \in RequestIds :
         LET req == Request("delete", key, image_id, NoFilename, FALSE)
         IN  IF get_api_key(key) # 0
             THEN Refuse(req, get_api_key(key))
             ELSE \E flush \in FlushOutcomes : Apply(req, delete_image(req, flush))

\* GET /api/images/{image_id}
Get ==
    /\ running
    /\ UNCHANGED inflight
    /\ \E image_id \in RequestIds :
         LET req == Request("get", "", image_id, NoFilename, FALSE)
         IN  Apply(req, get_image(req))

\* GET /api/images
List ==
    /\ running
    /\ UNCHANGED inflight
    /\ LET req == Request("list", "", "", NoFilename, FALSE)
       IN  Apply(req, list_images)

----------------------------------------------------------------------------
(* The specification *)

\* The contents a project directory can have when the process first starts
ProjectDirs ==
    { d \in UNION { [names -> { FileContent("", image) : image \in BOOLEAN }] :
                      names \in SUBSET ProjectFilenames } :
        \A f \in DOMAIN d : d[f].image => HasImageExtension(f) }

\* Before the first start: no document, an empty upload directory (main.py:22)
Init ==
    /\ running = FALSE
    /\ metadata = EmptyMap
    /\ doc = AbsentDoc
    /\ uploadDir = EmptyMap
    /\ projDir \in ProjectDirs
    /\ nextId = 1
    /\ last = NoRequest
    /\ deleted = {}
    /\ inflight = [s \in Slots |-> IdleSlot]
    /\ atExit = NoExit
    /\ allSucceeded = TRUE

Next ==
    \/ Startup
    \/ Shutdown
    \/ Upload
    \/ Delete
    \/ Get
    \/ List

Spec == Init /\ [][Next]_vars

\* One process whose authenticated uploads are suspended and resumed between
\* each other and authenticated deletes
NextConc ==
    \/ Startup
    \/ \E s \in Slots : UploadBegin(s)
    \/ \E s \in Slots : UploadResume(s)
    \/ Delete /\ last'.key = API_KEY

SpecConc == Init /\ [][NextConc]_vars

----------------------------------------------------------------------------
(* Vocabulary of the properties *)

\* The mapping the on-disk document holds equals the map m
DocumentHolds(d, m) == d.state = "json" /\ json_load(d.text) = m

\* The last request was an upload or a delete that got past get_api_key
Authenticated(l) == l.key = API_KEY

\* A filename that ends with none of .png/.jpg/.jpeg/.gif/.bmp, letter case aside
LacksAcceptedExtension(filename) ==
    \A ext \in { <<".", "p", "n", "g">>, <<".", "j", "p", "g">>,
                 <<".", "j", "p", "e", "g">>, <<".", "g", "i", "f">>,
                 <<".", "b", "m", "p">> } :
        \/ Len(filename) < Len(ext)
        \/ \E i \in 1..Len(ext) :
             Lower(<<filename[Len(filename) - Len(ext) + i]>>) # <<ext[i]>>

\* the urls of the records in the map
RecordUrls == { metadata[k].url : k \in DOMAIN metadata }

\* Neither the map, the document nor a directory changes in the step
NothingChanges ==
    /\ metadata' = metadata
    /\ doc' = doc
    /\ uploadDir' = uploadDir
    /\ projDir' = projDir

----------------------------------------------------------------------------
(* C1 *)

\* C1: whenever an upload or delete has returned its response, whatever the
\* outcome, the in-memory metadata map equals the mapping stored in the document.
C1_MapEqualsDocument ==
    (running /\ last.op \in {"upload", "delete"}) => DocumentHolds(doc, metadata)

----------------------------------------------------------------------------
(* C2 *)

\* C2: with no operation in flight, every record of the metadata map has its file
\* present in the directory its source selects and absent from the other directory.
C2_FileInSourceDirectoryOnly ==
    running =>
        \A k \in DOMAIN metadata :
            LET rec == metadata[k]
            IN  IF rec.source = "uploaded"
                THEN rec.filename \in DOMAIN uploadDir /\ rec.filename \notin DOMAIN projDir
                ELSE rec.filename \in DOMAIN projDir /\ rec.filename \notin DOMAIN uploadDir

----------------------------------------------------------------------------
(* C3 *)

\* C3: no two distinct records of the metadata map have the same filename, be they
\* project records, uploads with a supplied filename or uploads with a synthesized one.
C3_FilenamesUnique ==
    \A j, k \in DOMAIN metadata : j # k => metadata[j].filename # metadata[k].filename

\* Two records are in the map, the newer one just stored by a successful upload
C3_Witness ==
    /\ running
    /\ last.op = "upload"
    /\ last.status = HTTP_200_OK
    /\ Cardinality(DOMAIN metadata) >= 2

----------------------------------------------------------------------------
(* C4 *)

\* The step answers an authenticated upload whose supplied filename lacks an
\* accepted extension
C4_Case ==
    /\ last'.op = "upload"
    /\ Authenticated(last')
    /\ last'.filename # NoFilename
    /\ LacksAcceptedExtension(last'.filename)

\* C4 as stated: for every authenticated upload whose supplied filename has no
\* accepted extension, whatever the uploaded bytes are, the response is 400, no
\* file is written and the metadata map and document are unchanged.
C4_Original ==
    [][C4_Case => (last'.status = HTTP_400_BAD_REQUEST /\ NothingChanges)]_vars

\* C4 amended: such an upload is answered 400 when the uploaded bytes decode as an
\* image and 500 when they do not; in both cases no file is written and the
\* metadata map and document are unchanged.
C4_BadExtensionRejected ==
    [][C4_Case =>
          /\ last'.status = IF last'.decodable THEN HTTP_400_BAD_REQUEST
                            ELSE HTTP_500_INTERNAL
          /\ NothingChanges]_vars

\* An authenticated upload of a decodable image as "c.txt" was answered 400
C4_Witness ==
    /\ last.op = "upload"
    /\ Authenticated(last)
    /\ last.filename = C_TXT
    /\ last.decodable
    /\ last.status = HTTP_400_BAD_REQUEST

----------------------------------------------------------------------------
(* C5 *)

\* The step answers an authenticated upload that supplies the filename of an
\* uploaded record the map holds
C5_Case ==
    /\ last'.op = "upload"
    /\ Authenticated(last')
    /\ last'.filename # NoFilename
    /\ \E k \in DOMAIN metadata :
         metadata[k].source = "uploaded" /\ metadata[k].filename = last'.filename

\* C5 as stated: after a successful upload with supplied filename F, any later
\* upload supplying F while the first record exists yields 400 and leaves that
\* record and the file stored under F exactly as they were.
C5_Original ==
    [][C5_Case => (last'.status = HTTP_400_BAD_REQUEST /\ NothingChanges)]_vars

\* C5 amended: such a later upload yields 400 when its bytes decode as an image
\* and 500 when they do not; in both cases the first record and the file stored
\* under F are left exactly as they were.
C5_DuplicateRejected ==
    [][C5_Case =>
          /\ last'.status = IF last'.decodable THEN HTTP_400_BAD_REQUEST
                            ELSE HTTP_500_INTERNAL
          /\ NothingChanges]_vars

\* A second upload as "a.PNG" was answered 400 while the record and the file of
\* the first are there
C5_Witness ==
    /\ last.op = "upload"
    /\ Authenticated(last)
    /\ last.filename = A_PNG
    /\ last.status = HTTP_400_BAD_REQUEST
    /\ A_PNG \in DOMAIN uploadDir
    /\ \E k \in DOMAIN metadata :
         metadata[k].source = "uploaded" /\ metadata[k].filename = A_PNG

----------------------------------------------------------------------------
(* C6 *)

\* The step answers an authenticated delete of a record the map holds with
\* source = uploaded
C6_Case ==
    /\ last'.op = "delete"
    /\ Authenticated(last')
    /\ last'.image_id \in DOMAIN metadata
    /\ metadata[last'.image_id].source = "uploaded"

\* the answer a get of image_id would be given in the current state
GetStatus(image_id) == get_image(Request("get", "", image_id, NoFilename, FALSE)).status

\* C6: an authenticated delete of an existing uploaded record removes its file
\* from the upload directory and its entry from the metadata map and from the
\* document, and every later get on that id yields 404.
C6_DeleteRemovesFileAndEntry ==
    [][/\ C6_Case =>
            /\ metadata[last'.image_id].filename \notin DOMAIN uploadDir'
            /\ last'.image_id \notin DOMAIN metadata'
            /\ doc'.state = "json"
            /\ last'.image_id \notin DOMAIN json_load(doc'.text)
       /\ \A image_id \in deleted' :
            running' => GetStatus(image_id)' = HTTP_404_NOT_FOUND]_vars

----------------------------------------------------------------------------
(* C7 *)

\* The step answers an authenticated delete of a record the map holds with
\* source = project
C7_Case ==
    /\ last'.op = "delete"
    /\ Authenticated(last')
    /\ last'.image_id \in DOMAIN metadata
    /\ metadata[last'.image_id].source = "project"

\* C7: an authenticated delete of a project record always yields 403 and changes
\* neither the metadata map, the document nor a file of either directory.
C7_ProjectDeleteForbidden ==
    [][C7_Case => (last'.status = HTTP_403_FORBIDDEN /\ NothingChanges)]_vars

\* An authenticated delete of a project record in the map was answered 403
C7_Witness ==
    /\ last.op = "delete"
    /\ Authenticated(last)
    /\ last.status = HTTP_403_FORBIDDEN
    /\ last.image_id \in DOMAIN metadata
    /\ metadata[last.image_id].source = "project"

----------------------------------------------------------------------------
(* C8 *)

\* The step answers an upload or a delete whose X-API-Key header is missing or
\* is not the configured secret
C8_Case ==
    /\ last'.op \in {"upload", "delete"}
    /\ last'.key # "thisisapikey"

\* C8: an upload or delete request whose key is missing or wrong yields 403 and
\* changes neither the metadata map, the document nor a file of either directory.
C8_BadKeyRefused ==
    [][C8_Case => (last'.status = HTTP_403_FORBIDDEN /\ NothingChanges)]_vars

\* A delete naming the id of a record in the map, with a wrong key, was answered 403
C8_Witness ==
    /\ last.op = "delete"
    /\ last.key = "wrongkey"
    /\ last.status = HTTP_403_FORBIDDEN
    /\ last.image_id \in DOMAIN metadata
    /\ metadata[last.image_id].source = "uploaded"

----------------------------------------------------------------------------
(* C9 *)

\* The step is a process start
C9_Case == ~running /\ last'.op = "startup"

\* The document holds a mapping with at least one entry
NonEmptyDocument(d) == d.state = "json" /\ d.text # {}

\* The start drew ids for project files or wrote the document
C9_Scanned == nextId' # nextId \/ doc' # doc

\* C9: at process start project images are scanned and registered only when the
\* loaded document is absent or empty; a start with a non-empty document adds no
\* record and writes nothing, whatever the project directory contains.
C9_ScanOnlyWhenEmpty ==
    [][C9_Case =>
          /\ C9_Scanned => ~NonEmptyDocument(doc) /\ doc.state # "corrupt"
          /\ NonEmptyDocument(doc) =>
                /\ running'
                /\ DOMAIN metadata' = { kv[1] : kv \in doc.text }
                /\ \A kv \in doc.text : metadata'[kv[1]] = kv[2]
                /\ doc' = doc
                /\ uploadDir' = uploadDir
                /\ projDir' = projDir]_vars

\* The process was started again on a document that holds an uploaded record,
\* with a project directory holding a file the scan would register
C9_Witness ==
    /\ running
    /\ last.op = "startup"
    /\ \E k \in DOMAIN metadata : metadata[k].source = "uploaded"
    /\ \E f \in DOMAIN projDir : projDir[f].image

----------------------------------------------------------------------------
(* C10 *)

\* the url a file is served under: the prefix followed by the file's name
ServedUrl(prefix, name) == <<prefix>> \o name

----------------------------------------------------------------------------
(* C11 *)

\* The step answers an authenticated upload with an error after its file was
\* written: the inspector failed, or the image save or the metadata flush raised
C11_Case ==
    /\ last'.op = "upload"
    /\ Authenticated(last')
    /\ last'.status >= 400
    /\ last'.fault \in {"save_after_open", "inspect", "flush_open", "flush_write"}

\* the files of a directory that the upload which drew image_id wrote
FilesWrittenBy(dir, image_id) == { f \in DOMAIN dir : dir[f].by = image_id }

\* C11: whenever an upload completes with an error after it has written its file,
\* the file it wrote is no longer present in the upload directory (nor anywhere
\* else) when the error response is returned.
C11_NoOrphanAfterError ==
    [][C11_Case =>
          /\ FilesWrittenBy(uploadDir', UUIDS[nextId]) = {}
          /\ FilesWrittenBy(projDir', UUIDS[nextId]) = {}]_vars

\* An upload was answered 500 because the metadata flush failed after the file
\* had been saved and inspected
C11_Witness ==
    /\ last.op = "upload"
    /\ last.status = HTTP_500_INTERNAL
    /\ last.fault = "flush_open"
    /\ last.filename = A_PNG
    /\ A_PNG \notin DOMAIN uploadDir

----------------------------------------------------------------------------
(* C12 *)

\* C12: across upload and delete operations a record keeps all its fields for as
\* long as it is in the metadata map, and a record with source = project is never
\* removed from the map: only records with source = uploaded are.
C12_RecordsImmutable ==
    [][(running /\ last'.op \in {"upload", "delete"}) =>
          \A k \in DOMAIN metadata :
              /\ k \in DOMAIN metadata' => metadata'[k] = metadata[k]
              /\ metadata[k].source = "project" => k \in DOMAIN metadata']_vars

\* A delete removed an uploaded record while a project record stays in the map
C12_Witness ==
    /\ last.op = "delete"
    /\ last.status = HTTP_200_OK
    /\ last.image_id \notin DOMAIN metadata
    /\ \E k \in DOMAIN metadata : metadata[k].source = "project"

----------------------------------------------------------------------------
(* C13 *)

\* The step answers an authenticated delete of an uploaded record in the map
\* whose file is not in the upload directory
C13_Case ==
    /\ last'.op = "delete"
    /\ Authenticated(last')
    /\ last'.image_id \in DOMAIN metadata
    /\ metadata[last'.image_id].source = "uploaded"
    /\ metadata[last'.image_id].filename \notin DOMAIN uploadDir

\* The step removed the record from the map, persisted the map and returned the
\* confirmation with the record's id and filename
C13_Deleted ==
    /\ last'.status = HTTP_200_OK
    /\ DOMAIN metadata' = (DOMAIN metadata) \ {last'.image_id}
    /\ \A k \in DOMAIN metadata' : metadata'[k] = metadata[k]
    /\ DocumentHolds(doc', metadata')
    /\ last'.body = {[id |-> last'.image_id,
                      filename |-> metadata[last'.image_id].filename]}

\* C13: an authenticated delete of an uploaded record whose file is already
\* missing from the upload directory does not fail: it removes the record from
\* the metadata map, persists the map, and returns the confirmation with the
\* record's id and filename.
C13_MissingFileTolerated == [][C13_Case => C13_Deleted]_vars

----------------------------------------------------------------------------
(* C14 *)

\* The record's file is present in the directory its source selects
FileInSourceDirectory(rec) ==
    IF rec.source = "uploaded" THEN rec.filename \in DOMAIN uploadDir
    ELSE rec.filename \in DOMAIN projDir

\* the bytes of the record's file in the directory its source selects
FileBytes(rec) ==
    IF rec.source = "uploaded" THEN uploadDir[rec.filename] ELSE projDir[rec.filename]

\* C14: a get by id yields 404 exactly when the id is not in the metadata map or
\* the record's file is missing from the directory selected by its source; in
\* every other case it succeeds with the file's bytes; it never changes the
\* metadata or a file.
C14_GetFoundOrNot ==
    [][last'.op = "get" =>
          /\ NothingChanges
          /\ last'.status = HTTP_404_NOT_FOUND <=>
                \/ last'.image_id \notin DOMAIN metadata
                \/ ~FileInSourceDirectory(metadata[last'.image_id])
          /\ last'.status # HTTP_404_NOT_FOUND =>
                /\ last'.status = HTTP_200_OK
                /\ last'.body = {FileBytes(metadata[last'.image_id])}]_vars

----------------------------------------------------------------------------
(* C15 *)

\* C15: a successful upload adds exactly one record to the map, under an id that
\* was not a key before, with source = uploaded and url = /uploaded/ followed by
\* its filename; the returned record is the stored one, its file exists in the
\* upload directory, and every record that was there is unchanged.
C15_SuccessfulUploadAddsRecord ==
    [][(last'.op = "upload" /\ last'.status = HTTP_200_OK) =>
          \E k \in DOMAIN metadata' :
              /\ k \notin DOMAIN metadata
              /\ DOMAIN metadata' = DOMAIN metadata \cup {k}
              /\ metadata'[k].id = k
              /\ metadata'[k].source = "uploaded"
              /\ metadata'[k].url = <<"/uploaded/">> \o metadata'[k].filename
              /\ last'.body = {metadata'[k]}
              /\ metadata'[k].filename \in DOMAIN uploadDir'
              /\ \A j \in DOMAIN metadata : metadata'[j] = metadata[j]]_vars

----------------------------------------------------------------------------
(* C16 *)

\* C16: an upload that completes with an error response (400 or 500) leaves the
\* in-memory metadata map with exactly the records it had before the call.
C16_FailedUploadKeepsMap ==
    [][(last'.op = "upload" /\ Authenticated(last') /\ last'.status \in {400, 500}) =>
          metadata' = metadata]_vars

----------------------------------------------------------------------------
(* C17 *)

\* The uploads of slots s and t were suspended at the same time, supplied the
\* same filename, and both have been answered
ConcurrentSameName(s, t) ==
    /\ s # t
    /\ t \in inflight[s].peers
    /\ inflight[s].phase = "done"
    /\ inflight[t].phase = "done"
    /\ inflight[s].filename # NoFilename
    /\ inflight[s].filename = inflight[t].filename

BothSucceeded(s, t) ==
    inflight[s].status = HTTP_200_OK /\ inflight[t].status = HTTP_200_OK

\* no two records of the map hold the same filename
NoFilenameTwice ==
    \A j, k \in DOMAIN metadata :
        metadata[j].filename = metadata[k].filename => j = k

\* C17 as stated: two concurrent authenticated uploads that supply the same
\* filename never both succeed, and filename uniqueness holds under every
\* interleaving of upload and delete requests.
C17_Original ==
    /\ NoFilenameTwice
    /\ \A s, t \in Slots : ConcurrentSameName(s, t) => ~BothSucceeded(s, t)

\* C17 amended: two concurrent authenticated uploads that supply the same
\* filename both succeed only when a delete has removed the record of one of
\* them before the other resumed; their two records are never in the map
\* together, and filename uniqueness holds under every interleaving of upload
\* and delete requests.
C17_OneRecordPerFilename ==
    /\ NoFilenameTwice
    /\ \A s, t \in Slots :
          (ConcurrentSameName(s, t) /\ BothSucceeded(s, t)) =>
              /\ inflight[s].id \in deleted \/ inflight[t].id \in deleted
              /\ ~(inflight[s].id \in DOMAIN metadata /\ inflight[t].id \in DOMAIN metadata)

\* Two concurrent uploads supplied a.PNG: the one resumed first was answered 200
\* and its record is in the map, the other was answered 400
C17_Witness ==
    \E s, t \in Slots :
        /\ ConcurrentSameName(s, t)
        /\ inflight[s].filename = A_PNG
        /\ inflight[s].status = HTTP_200_OK
        /\ inflight[s].id \in DOMAIN metadata
        /\ inflight[t].status = HTTP_400_BAD_REQUEST
        /\ last.status = HTTP_400_BAD_REQUEST

----------------------------------------------------------------------------
(* C18 *)

\* The step starts the process again after a run in which every upload and
\* delete succeeded and which held a non-empty map when it exited
C18_Case ==
    /\ ~running
    /\ last'.op = "startup"
    /\ atExit.clean
    /\ atExit.map # EmptyMap

\* C18: after a run of successful uploads and deletes that leaves the metadata
\* map non-empty, restarting the process yields an in-memory map equal to the map
\* held before the restart, with the same ids and the same records.
C18_RestartRestoresMap ==
    [][C18_Case => (running' /\ metadata' = atExit.map)]_vars

\* The process came up again holding the uploaded record it held when it exited
\* after a run of successful requests
C18_Witness ==
    /\ running
    /\ last.op = "startup"
    /\ atExit.clean
    /\ metadata = atExit.map
    /\ \E k \in DOMAIN metadata :
          metadata[k].source = "uploaded" /\ metadata[k].filename = A_PNG

====
